---------------------------- MODULE Spec2Model ----------------------------
(***************************************************************************)
(* BackendClient (src/app/api/api.js): eight async HTTP wrappers around    *)
(* fetch and the synchronous WebSocket helper connectToChat.               *)
(*                                                                         *)
(* A JavaScript value is a record with a type tag t; primitives carry      *)
(* their literal text in v (always a string, so that values of different   *)
(* types can be compared).                                                 *)
(***************************************************************************)
EXTENDS Naturals, Sequences, FiniteSets, Bags

VARIABLES
    calls,      \* the HTTP calls: arguments, position, request, response, outcome
    log,        \* console.error / console.log output: the bag of its entries, each
                \* naming the call or socket that wrote it
    sockets,    \* the WebSockets opened by connectToChat
    chat,       \* the connectToChat invocations
    running     \* the connectToChat invocation the JS thread is executing (0: none)

vars == <<calls, log, sockets, chat, running>>

(***************************************************************************)
(* Bounds                                                                  *)
(***************************************************************************)
MaxCalls == 2
MaxChats == 2

CallIds == 1..MaxCalls
ChatIds == 1..MaxChats

(***************************************************************************)
(* JavaScript values                                                       *)
(***************************************************************************)
Undef == [t |-> "undefined", v |-> "undefined"]
Null == [t |-> "null", v |-> "null"]
Str(s) == [t |-> "string", v |-> s]
Num(s) == [t |-> "number", v |-> s]
Bool(s) == [t |-> "boolean", v |-> s]
Fn == [t |-> "function", v |-> "() => {}"]
\* a JSON-serialisable plain object, carried as its JSON text
Obj(s) == [t |-> "object", v |-> s]
\* values JSON.stringify throws a TypeError on
Circular == [t |-> "circular", v |-> "[Circular]"]
BigInt(s) == [t |-> "bigint", v |-> s]
\* a string holding a lone surrogate: encodeURIComponent throws a URIError on it
LoneSurrogate == Str("\\uD800")

\* the operand test of || : false, 0, NaN, "", null and undefined are falsy
Truthy(p) ==
    ~ \/ p.t \in {"undefined", "null"}
      \/ p.t = "string" /\ p.v = ""
      \/ p.t = "number" /\ p.v \in {"0", "NaN"}
      \/ p.t = "boolean" /\ p.v = "false"

\* a || b written as a ?? b: only null and undefined fall through
OrNullish(a, b) == IF a.t \in {"undefined", "null"} THEN b ELSE a

\* a || b
Or(a, b) == IF Truthy(a) THEN a ELSE b

\* `${p}` in a template literal
StringOf(p) == IF p.t = "object" THEN "[object Object]" ELSE p.v

(***************************************************************************)
(* Errors                                                                  *)
(***************************************************************************)
Err(n, m) == [name |-> n, message |-> m]
NoErr == Err("", "")

\* encodeURIComponent on the strings the model passes to login
MalformedURI(p) == p = LoneSurrogate

encodeURIComponent(p) ==
    LET s == StringOf(p) IN
    CASE s = "a@b.com" -> "a%40b.com"
      [] s = "p&w=1" -> "p%26w%3D1"
      [] OTHER -> s   \* "pw", "undefined": unreserved characters only

(***************************************************************************)
(* JSON.stringify                                                          *)
(***************************************************************************)
StringifyThrows(p) == p.t \in {"circular", "bigint"}

\* JSON.stringify(p): a string, or undefined for undefined and functions
Stringify(p) ==
    CASE p.t = "string" -> Str("\"" \o p.v \o "\"")
      [] p.t = "number" -> Str(IF p.v \in {"NaN", "Infinity"} THEN "null" ELSE p.v)
      [] p.t \in {"boolean", "null", "object"} -> Str(p.v)
      [] OTHER -> Undef

\* the properties of an object literal that JSON.stringify writes: those whose
\* value is neither undefined nor a function; NaN and Infinity are written null
RECURSIVE Serialised(_)
Serialised(fields) ==
    IF fields = <<>> THEN <<>>
    ELSE LET f == Head(fields)
             rest == Serialised(Tail(fields))
         IN IF Stringify(f.val) = Undef THEN rest
            ELSE IF f.val.t = "number" /\ f.val.v \in {"NaN", "Infinity"}
                 THEN <<[key |-> f.key, val |-> Null]>> \o rest
                 ELSE <<f>> \o rest

RECURSIVE JoinFields(_)
JoinFields(fields) ==
    IF fields = <<>> THEN ""
    ELSE "\"" \o Head(fields).key \o "\":" \o Stringify(Head(fields).val).v
         \o (IF Len(fields) > 1 THEN "," ELSE "") \o JoinFields(Tail(fields))

\* JSON.stringify({k1: v1, ...})
StringifyObject(fields) == Str("{" \o JoinFields(Serialised(fields)) \o "}")

AnyThrows(fields) == \E n \in 1..Len(fields) : StringifyThrows(fields[n].val)

Field(k, x) == [key |-> k, val |-> x]

\* the value a serialised body carries under key k (undefined when absent)
Lookup(fields, k) ==
    IF \E n \in 1..Len(fields) : fields[n].key = k
    THEN fields[CHOOSE n \in 1..Len(fields) : fields[n].key = k].val
    ELSE Undef

(***************************************************************************)
(* The operations                                                          *)
(***************************************************************************)
API_BASE_URL == "https://trustlink-backend-production.up.railway.app/api"

Ops == {"login", "register", "getIncidents", "createIncident", "sendEmergency",
        "sendReport", "getIncidentMessages", "sendChatMessage"}

\* every operation testing response.ok
HasStatusCheckAll(op) == op \in Ops

\* the operations that test response.ok
HasStatusCheck(op) ==
    op \in {"login", "register", "sendEmergency", "sendReport",
            "getIncidentMessages", "sendChatMessage"}

\* the prefix of the Error thrown on a response that is not ok
FailurePrefix(op) ==
    CASE op = "login" -> "Login failed: "
      [] op = "register" -> "Registration failed: "
      [] op = "sendEmergency" -> "Emergency failed: "
      [] op = "sendReport" -> "Report failed: "
      [] op = "getIncidentMessages" -> "Get messages failed: "
      [] op = "sendChatMessage" -> "Send message failed: "
      [] OTHER -> ""

\* the first argument of console.error in the catch block
LogTag(op) ==
    CASE op = "login" -> "Login error:"
      [] op = "register" -> "Register error:"
      [] op = "getIncidents" -> "Get incidents error:"
      [] op = "createIncident" -> "Create incident error:"
      [] op = "sendEmergency" -> "Send emergency error:"
      [] op = "sendReport" -> "Send report error:"
      [] op = "getIncidentMessages" -> "Get messages error:"
      [] op = "sendChatMessage" -> "Send message error:"

Request(m, path, auth, ctype, body, json) ==
    [method |-> m, url |-> API_BASE_URL \o path, auth |-> auth,
     contentType |-> ctype, body |-> body, json |-> json]
NoRequest ==
    [method |-> "", url |-> "", auth |-> Undef, contentType |-> Undef,
     body |-> Undef, json |-> <<>>]

Built(req) == [err |-> NoErr, req |-> req]
Thrown(e) == [err |-> e, req |-> NoRequest]

\* the token kept in a session shared by the calls: that of the first call
BearerAmbient(token) ==
    IF calls[1].pc # "idle" /\ calls[1].op \notin {"login", "register"}
    THEN Str("Bearer " \o StringOf(calls[1].args[1]))
    ELSE Str("Bearer " \o StringOf(token))

\* 'Authorization': `Bearer ${token}`
Bearer(token) == Str("Bearer " \o StringOf(token))

JsonType == Str("application/json")

\* register taking the role from the caller when it gives one
RegisterFieldsCallerRole(userData) ==
    << Field("email", userData.email),
       Field("password", userData.password),
       Field("full_name", Or(Or(userData.fullName, userData.full_name), Str(""))),
       Field("phone_number", Or(Or(userData.phoneNumber, userData.phone_number), Str(""))),
       Field("role", Or(userData.role, Str("citizen"))) >>

\* the object literal register serialises
RegisterFields(userData) ==
    << Field("email", userData.email),
       Field("password", userData.password),
       Field("full_name", Or(Or(userData.fullName, userData.full_name), Str(""))),
       Field("phone_number", Or(Or(userData.phoneNumber, userData.phone_number), Str(""))),
       Field("role", Str("citizen")) >>

\* the object literal sendChatMessage serialises
ChatMessageFields(incidentId, message) ==
    << Field("content", message), Field("incident_id", incidentId) >>

\* a POST whose body is JSON.stringify of an object literal
PostFields(path, auth, fields) ==
    IF AnyThrows(fields)
    THEN Thrown(Err("TypeError", "Converting circular structure or BigInt to JSON"))
    ELSE Built(Request("POST", path, auth, JsonType, StringifyObject(fields),
                       Serialised(fields)))

\* a POST whose body is JSON.stringify of the caller's payload
PostPayload(path, auth, data) ==
    IF StringifyThrows(data)
    THEN Thrown(Err("TypeError", "Converting circular structure or BigInt to JSON"))
    ELSE Built(Request("POST", path, auth, JsonType, Stringify(data), <<>>))

\* the evaluation of fetch's arguments: the request, or the exception thrown
\* while building it (args are the positional arguments, undefined when absent)
BuildRequest(op, args) ==
    CASE op = "login" ->
           IF MalformedURI(args[1]) \/ MalformedURI(args[2])
           THEN Thrown(Err("URIError", "URI malformed"))
           ELSE Built(Request("POST", "/auth/login", Undef,
                              Str("application/x-www-form-urlencoded"),
                              Str("username=" \o encodeURIComponent(args[1])
                                  \o "&password=" \o encodeURIComponent(args[2])),
                              <<>>))
      [] op = "register" ->
           IF args[1].t \in {"undefined", "null"}
           THEN Thrown(Err("TypeError",
                     "Cannot read properties of " \o args[1].v \o " (reading 'email')"))
           ELSE PostFields("/auth/register", Undef, RegisterFields(args[1]))
      [] op = "getIncidents" ->
           Built(Request("GET", "/incidents", Bearer(args[1]), Undef, Undef, <<>>))
      [] op = "createIncident" ->
           PostPayload("/incidents", Bearer(args[1]), args[2])
      [] op = "sendEmergency" ->
           PostPayload("/incidents/emergency", Bearer(args[1]), args[2])
      [] op = "sendReport" ->
           PostPayload("/incidents/report", Bearer(args[1]), args[2])
      [] op = "getIncidentMessages" ->
           Built(Request("GET", "/chat/incidents/" \o StringOf(args[2]) \o "/messages",
                         Bearer(args[1]), Undef, Undef, <<>>))
      [] op = "sendChatMessage" ->
           PostFields("/chat/messages", Bearer(args[1]),
                      ChatMessageFields(args[2], args[3]))

(***************************************************************************)
(* Responses                                                               *)
(***************************************************************************)
Response(ok, status, text, body) ==
    [ok |-> ok, status |-> status, statusText |-> text, body |-> body]
NoResponse == Response(FALSE, 0, "", Undef)

\* a body whose stream fails before it was read to its end
StreamError == [t |-> "streamError", v |-> ""]

\* a parsed JSON value: its type, its text, and its detail property
Json(t, v, detail) == [t |-> t, v |-> v, detail |-> detail]
NoValue == Json("undefined", "undefined", Undef)

TokenBody == "{\"access_token\":\"T\",\"token_type\":\"bearer\"}"
DetailBody == "{\"detail\":\"Bad credentials\"}"
EmptyDetailBody == "{\"detail\":\"\"}"
NullDetailBody == "{\"detail\":null}"
ObjectDetailBody == "{\"detail\":{\"msg\":\"field required\"}}"
EmptyObjectBody == "{}"
NullBody == "null"
ArrayBody == "[]"
HtmlBody == "<html>502 Bad Gateway</html>"
EmptyBody == ""

ValidJson(text) ==
    text \in {TokenBody, DetailBody, EmptyDetailBody, NullDetailBody,
              ObjectDetailBody, EmptyObjectBody, NullBody, ArrayBody}

\* JSON.parse on the body texts the model's backend sends
ParseJson(text) ==
    CASE text = TokenBody -> Json("object", text, Undef)
      [] text = DetailBody -> Json("object", text, Str("Bad credentials"))
      [] text = EmptyDetailBody -> Json("object", text, Str(""))
      [] text = NullDetailBody -> Json("object", text, Null)
      [] text = ObjectDetailBody ->
           Json("object", text, Obj("{\"msg\":\"field required\"}"))
      [] text = EmptyObjectBody -> Json("object", text, Undef)
      [] text = NullBody -> Json("null", text, Undef)
      [] text = ArrayBody -> Json("array", text, Undef)

\* response.json(): the parsed body, or the error it rejects with
Settled(val, err) == [val |-> val, err |-> err]
ResponseJson(response) ==
    CASE response.body.t = "streamError" ->
           Settled(NoValue, Err("TypeError", "Network request failed"))
      [] response.body.v = EmptyBody ->
           Settled(NoValue, Err("SyntaxError", "Unexpected end of JSON input"))
      [] ~ValidJson(response.body.v) ->
           Settled(NoValue, Err("SyntaxError", "Unexpected token < in JSON at position 0"))
      [] OTHER -> Settled(ParseJson(response.body.v), NoErr)

\* the error carrying the status text only
FailureErrorStatusOnly(op, errorData, response) ==
    Err("Error", FailurePrefix(op) \o response.statusText)

\* throw new Error(`<Operation> failed: ${errorData.detail || response.statusText}`),
\* or the TypeError of reading .detail of null
FailureError(op, errorData, response) ==
    IF errorData.t = "null"
    THEN Err("TypeError", "Cannot read properties of null (reading 'detail')")
    ELSE Err("Error", FailurePrefix(op)
                      \o StringOf(Or(errorData.detail, Str(response.statusText))))

(***************************************************************************)
(* The calls.  An async function runs to its first await when invoked and  *)
(* from one await to the next when the awaited promise settles; each such  *)
(* run is one action.                                                      *)
(***************************************************************************)
Call(op, args, pc, nfetch, request, response, result, val, err, seen, seenVal, seenErr) ==
    [op |-> op, args |-> args, pc |-> pc, nfetch |-> nfetch, request |-> request,
     response |-> response, result |-> result, val |-> val, err |-> err,
     seen |-> seen, seenVal |-> seenVal, seenErr |-> seenErr]

Idle ==
    Call("", <<Undef, Undef, Undef>>, "idle", 0, NoRequest, NoResponse,
         "pending", NoValue, NoErr, "nothing", NoValue, NoErr)

LogEntry(kind, id, level, tag, e) ==
    [kind |-> kind, id |-> id, level |-> level, tag |-> tag, err |-> e]

\* one more entry on the console
Console(entry) == log (+) SetToBag({entry})

\* catch (error) { console.error('<tag>', error); throw error; }
CatchLog(i, op, e) == Console(LogEntry("http", i, "error", LogTag(op), e))
\* a catch block that logs and does not rethrow: the call returns undefined
CatchSwallow(c, e) == [c EXCEPT !.pc = "settled", !.result = "returned"]

CatchRethrow(c, e) == [c EXCEPT !.pc = "settled", !.result = "threw", !.err = e]

Catch(i, op, e) ==
    /\ log' = CatchLog(i, op, e)
    /\ calls' = [calls EXCEPT ![i] = CatchRethrow(@, e)]

\* return await response.json()
Return(c, x) == [c EXCEPT !.pc = "settled", !.result = "returned", !.val = x]

\* await fetch(url, init)
Fetch(c, req) == [c EXCEPT !.pc = "awaitFetch", !.nfetch = @ + 1, !.request = req]

\* the call of an operation: the run up to `await fetch(...)`, or to the end of
\* the catch block when evaluating fetch's arguments throws (calls are numbered
\* in the order in which they are made)
Invoke(i, op, args) ==
    /\ calls[i].pc = "idle"
    /\ \A j \in CallIds : j < i => calls[j].pc # "idle"
    /\ LET b == BuildRequest(op, args)
           c == [calls[i] EXCEPT !.op = op, !.args = args]
       IN IF b.err # NoErr
          THEN /\ log' = CatchLog(i, op, b.err)
               /\ calls' = [calls EXCEPT ![i] = CatchRethrow(c, b.err)]
          ELSE /\ calls' = [calls EXCEPT ![i] = Fetch(c, b.req)]
               /\ UNCHANGED log
    /\ UNCHANGED <<sockets, chat, running>>

\* the position after `await fetch(...)` resolved with a response
AfterFetch(op, response) ==
    IF HasStatusCheck(op) /\ ~response.ok THEN "awaitErrorJson" ELSE "awaitJson"

\* fetch resolves: the run up to `await response.json()`
FetchResolved(i, response) ==
    /\ calls[i].pc = "awaitFetch"
    /\ calls' = [calls EXCEPT ![i].response = response,
                              ![i].pc = AfterFetch(calls[i].op, response)]
    /\ UNCHANGED <<log, sockets, chat, running>>

\* a transport failure answered by a second fetch of the same request
FetchRejectedRetry(i) ==
    /\ calls[i].pc = "awaitFetch"
    /\ calls' = [calls EXCEPT ![i] = Fetch(@, calls[i].request)]
    /\ UNCHANGED <<log, sockets, chat, running>>

\* fetch rejects (transport failure): the catch block runs
FetchRejected(i) ==
    /\ calls[i].pc = "awaitFetch"
    /\ Catch(i, calls[i].op, Err("TypeError", "Network request failed"))
    /\ UNCHANGED <<sockets, chat, running>>

\* the error body parsed under a guard of its own: a body that does not parse
\* gives the "<Operation> failed" error with the status text
JsonSettledGuarded(i) ==
    /\ calls[i].pc \in {"awaitJson", "awaitErrorJson"}
    /\ LET c == calls[i]
           r == ResponseJson(c.response)
       IN IF c.pc = "awaitErrorJson"
          THEN Catch(i, c.op, FailureError(c.op, r.val, c.response))
          ELSE IF r.err # NoErr
               THEN Catch(i, c.op, r.err)
               ELSE /\ calls' = [calls EXCEPT ![i] = Return(c, r.val)]
                    /\ UNCHANGED log
    /\ UNCHANGED <<sockets, chat, running>>

\* response.json() settles: the run to the end of the function
JsonSettled(i) ==
    /\ calls[i].pc \in {"awaitJson", "awaitErrorJson"}
    /\ LET c == calls[i]
           r == ResponseJson(c.response)
       IN IF r.err # NoErr
          THEN Catch(i, c.op, r.err)
          ELSE IF c.pc = "awaitErrorJson"
               THEN Catch(i, c.op, FailureError(c.op, r.val, c.response))
               ELSE /\ calls' = [calls EXCEPT ![i] = Return(c, r.val)]
                    /\ UNCHANGED log
    /\ UNCHANGED <<sockets, chat, running>>

\* the caller's `await` of the call's promise resumes with its value or error
CallerResumes(i) ==
    /\ calls[i].pc = "settled"
    /\ calls[i].seen = "nothing"
    /\ calls' = [calls EXCEPT ![i].seen = calls[i].result,
                              ![i].seenVal = calls[i].val,
                              ![i].seenErr = calls[i].err]
    /\ UNCHANGED <<log, sockets, chat, running>>

(***************************************************************************)
(* Inputs                                                                  *)
(***************************************************************************)
UserData(email, password, fullName, full_name, phoneNumber, phone_number, role) ==
    [t |-> "object", v |-> "userData", email |-> email, password |-> password,
     fullName |-> fullName, full_name |-> full_name, phoneNumber |-> phoneNumber,
     phone_number |-> phone_number, role |-> role]

Tokens == {Str("t1"), Str("t2")}
NameValues == {Undef, Str(""), Str("A B"), Num("0"), Null, Fn}
PhoneValues == {Undef, Str("+7701"), Bool("false")}
RoleValues == {Undef, Str("admin")}
Payloads == {Obj("{\"title\":\"x\"}"), Undef, Circular}
IncidentIds == {Num("42"), Str("7")}
Messages == {Str("hello"), BigInt("1n")}

UserDatas ==
    {Undef, Null} \cup
    { UserData(Str("a@b.com"), Str("pw"), n1, n2, p1, p2, r) :
        n1 \in NameValues, n2 \in NameValues,
        p1 \in PhoneValues, p2 \in PhoneValues, r \in RoleValues }

\* the argument lists explored for one call
Args(op) ==
    CASE op = "login" ->
           { <<e, p, Undef>> : e \in {Str("a@b.com"), LoneSurrogate},
                               p \in {Str("pw"), Str("p&w=1")} }
      [] op = "register" -> { <<u, Undef, Undef>> : u \in UserDatas }
      [] op = "getIncidents" -> { <<t, Undef, Undef>> : t \in Tokens }
      [] op \in {"createIncident", "sendEmergency", "sendReport"} ->
           { <<t, d, Undef>> : t \in Tokens, d \in Payloads }
      [] op = "getIncidentMessages" -> { <<t, n, Undef>> : t \in Tokens, n \in IncidentIds }
      [] op = "sendChatMessage" ->
           { <<t, n, m>> : t \in Tokens, n \in IncidentIds, m \in Messages }

\* the argument lists explored for concurrent calls
FewArgs(op) ==
    CASE op = "login" -> { <<Str("a@b.com"), Str("pw"), Undef>> }
      [] op = "register" ->
           { <<Undef, Undef, Undef>>,
             <<UserData(Str("a@b.com"), Str("pw"), Str("A B"), Undef, Undef, Undef,
                        Str("admin")), Undef, Undef>> }
      [] op = "getIncidents" -> { <<t, Undef, Undef>> : t \in Tokens }
      [] op \in {"createIncident", "sendReport"} ->
           { <<Str("t1"), Obj("{\"title\":\"x\"}"), Undef>> }
      [] op = "sendEmergency" -> { <<Str("t2"), Obj("{\"title\":\"x\"}"), Undef>> }
      [] op = "getIncidentMessages" -> { <<Str("t2"), Num("42"), Undef>> }
      [] op = "sendChatMessage" -> { <<Str("t1"), Num("42"), Str("hello")>> }

\* the arguments explored for connectToChat
ChatArgs == { <<Num("42"), Str("t1")>> }

Statuses ==
    { Response(TRUE, 200, "OK", Undef),
      Response(FALSE, 401, "Unauthorized", Undef),
      Response(FALSE, 500, "", Undef) }     \* HTTP/2: no status text

Bodies ==
    { Str(TokenBody), Str(DetailBody), Str(EmptyDetailBody), Str(NullDetailBody),
      Str(ObjectDetailBody), Str(EmptyObjectBody), Str(NullBody), Str(ArrayBody),
      Str(HtmlBody), Str(EmptyBody), StreamError }

Responses == { [s EXCEPT !.body = b] : s \in Statuses, b \in Bodies }

FewResponses ==
    { Response(TRUE, 200, "OK", Str(TokenBody)),
      Response(FALSE, 401, "Unauthorized", Str(DetailBody)),
      Response(FALSE, 502, "Bad Gateway", Str(HtmlBody)) }

(***************************************************************************)
(* connectToChat.  The function is synchronous: the JS thread runs it to   *)
(* its return before it dispatches any event (running is the invocation it *)
(* is executing), while the network may connect or fail at any moment,     *)
(* which queues the socket's event.                                        *)
(***************************************************************************)
WS_BASE_URL == "wss://trustlink-backend-production.up.railway.app/api"

\* `wss://.../api/ws/chat/${incidentId}?token=${token}`
ChatUrl(incidentId, token) ==
    WS_BASE_URL \o "/ws/chat/" \o StringOf(incidentId) \o "?token=" \o StringOf(token)

\* new WebSocket(url): no hook set, connecting, no event queued or fired
\* (early: an event was queued while connectToChat was still executing)
NewSocket(k, url) ==
    [owner |-> k, url |-> url, readyState |-> "CONNECTING", wire |-> "connecting",
     onopen |-> "unset", onerror |-> "unset", queue |-> <<>>, fired |-> <<>>,
     early |-> FALSE]

\* socket.onopen = () => { console.log(...) }
InstallOnOpen(sock) == [sock EXCEPT !.onopen = "client"]
\* the error hook left out
InstallOnErrorMissing(sock) == sock

\* socket.onerror = (error) => { console.error(...) }
InstallOnError(sock) == [sock EXCEPT !.onerror = "client"]

ChatCall(pc, incidentId, token, socket, result, stateAtReturn, firedAtReturn, hooksAtReturn) ==
    [pc |-> pc, incidentId |-> incidentId, token |-> token, socket |-> socket,
     result |-> result, stateAtReturn |-> stateAtReturn,
     firedAtReturn |-> firedAtReturn, hooksAtReturn |-> hooksAtReturn]
NoChat == ChatCall("idle", Undef, Undef, 0, "pending", "", 0, <<>>)

JsThreadIdle == running = 0

\* line 88: const socket = new WebSocket(...) (invocations are numbered in the
\* order in which they are made)
ChatConstruct(k, incidentId, token) ==
    /\ JsThreadIdle
    /\ chat[k].pc = "idle"
    /\ \A j \in ChatIds : j < k => chat[j].pc # "idle"
    /\ sockets' = Append(sockets, NewSocket(k, ChatUrl(incidentId, token)))
    /\ chat' = [chat EXCEPT ![k].pc = "constructed", ![k].incidentId = incidentId,
                            ![k].token = token, ![k].socket = Len(sockets) + 1]
    /\ running' = k
    /\ UNCHANGED <<calls, log>>

\* lines 90-92
ChatSetOnOpen(k) ==
    /\ running = k
    /\ chat[k].pc = "constructed"
    /\ sockets' = [sockets EXCEPT ![chat[k].socket] = InstallOnOpen(@)]
    /\ chat' = [chat EXCEPT ![k].pc = "onopenSet"]
    /\ UNCHANGED <<calls, log, running>>

\* lines 94-96
ChatSetOnError(k) ==
    /\ running = k
    /\ chat[k].pc = "onopenSet"
    /\ sockets' = [sockets EXCEPT ![chat[k].socket] = InstallOnError(@)]
    /\ chat' = [chat EXCEPT ![k].pc = "onerrorSet"]
    /\ UNCHANGED <<calls, log, running>>

\* line 98: return socket
ChatReturn(k) ==
    /\ running = k
    /\ chat[k].pc = "onerrorSet"
    /\ LET sock == sockets[chat[k].socket]
       IN chat' = [chat EXCEPT ![k].pc = "returned", ![k].result = "returned",
                               ![k].stateAtReturn = sock.readyState,
                               ![k].firedAtReturn = Len(sock.fired),
                               ![k].hooksAtReturn = <<sock.onopen, sock.onerror>>]
    /\ running' = 0
    /\ UNCHANGED <<calls, log, sockets>>

\* the network: the handshake completes
NetConnected(s) ==
    /\ sockets[s].wire = "connecting"
    /\ sockets' = [sockets EXCEPT ![s].wire = "open", ![s].queue = Append(@, "open"),
                                  ![s].early = @ \/ running = sockets[s].owner]
    /\ UNCHANGED <<calls, log, chat, running>>

\* the network: the handshake or the connection fails
NetFailed(s) ==
    /\ sockets[s].wire \in {"connecting", "open"}
    /\ sockets' = [sockets EXCEPT ![s].wire = "failed", ![s].queue = Append(@, "error"),
                                  ![s].early = @ \/ running = sockets[s].owner]
    /\ UNCHANGED <<calls, log, chat, running>>

\* the client's open hook: console.log('WebSocket подключен')
ClientOnOpen(s) ==
    [log |-> Console(LogEntry("ws", s, "log", "WebSocket connected", NoErr)),
     sockets |-> sockets, chat |-> chat]

\* an error hook that logs and opens a new socket for the same invocation
ClientOnErrorReconnect(s) ==
    [log |-> Console(LogEntry("ws", s, "error", "WebSocket error:",
                              Err("Event", "error"))),
     sockets |-> Append(sockets, NewSocket(sockets[s].owner, sockets[s].url)),
     chat |-> chat]

\* the client's error hook: console.error('WebSocket ошибка:', error)
ClientOnError(s) ==
    [log |-> Console(LogEntry("ws", s, "error", "WebSocket error:",
                              Err("Event", "error"))),
     sockets |-> sockets, chat |-> chat]

NoHook == [log |-> log, sockets |-> sockets, chat |-> chat]

\* the event loop takes the socket's next event and calls the hook set for it
Dispatch(s) ==
    /\ JsThreadIdle
    /\ sockets[s].queue # <<>>
    /\ LET ev == Head(sockets[s].queue)
           hook == IF ev = "open" THEN sockets[s].onopen ELSE sockets[s].onerror
           after == CASE hook = "client" /\ ev = "open" -> ClientOnOpen(s)
                      [] hook = "client" /\ ev = "error" -> ClientOnError(s)
                      [] OTHER -> NoHook
       IN /\ log' = after.log
          /\ chat' = after.chat
          /\ sockets' = [after.sockets EXCEPT
                           ![s].queue = Tail(sockets[s].queue),
                           ![s].readyState = IF ev = "open" THEN "OPEN" ELSE "CLOSED",
                           ![s].fired = Append(sockets[s].fired,
                                               [ev |-> ev, hook |-> hook])]
    /\ UNCHANGED <<calls, running>>

\* the caller, holding the returned handle, sets a hook of its own
CallerSetsHook(s, which) ==
    /\ JsThreadIdle
    /\ chat[sockets[s].owner].pc = "returned"
    /\ IF which = "onopen"
       THEN /\ sockets[s].onopen = "client"
            /\ sockets' = [sockets EXCEPT ![s].onopen = "caller"]
       ELSE /\ sockets[s].onerror = "client"
            /\ sockets' = [sockets EXCEPT ![s].onerror = "caller"]
    /\ UNCHANGED <<calls, log, chat, running>>

(***************************************************************************)
(* Specifications                                                          *)
(***************************************************************************)
Init ==
    /\ calls = [i \in CallIds |-> Idle]
    /\ log = EmptyBag
    /\ sockets = <<>>
    /\ chat = [k \in ChatIds |-> NoChat]
    /\ running = 0

\* concurrent calls
Next ==
    \E i \in CallIds :
        \/ \E op \in Ops : \E args \in FewArgs(op) : Invoke(i, op, args)
        \/ \E response \in FewResponses : FetchResolved(i, response)
        \/ FetchRejected(i)
        \/ JsonSettled(i)

Spec == Init /\ [][Next]_vars

\* one call, over all inputs and responses
NextOne ==
    \/ \E op \in Ops : \E args \in Args(op) : Invoke(1, op, args)
    \/ \E response \in Responses : FetchResolved(1, response)
    \/ FetchRejected(1)
    \/ JsonSettled(1)
    \/ CallerResumes(1)

SpecOne == Init /\ [][NextOne]_vars

\* connectToChat, the network and the event loop
NextChat ==
    \/ \E k \in ChatIds : \E a \in ChatArgs : ChatConstruct(k, a[1], a[2])
    \/ \E k \in ChatIds : ChatSetOnOpen(k)
    \/ \E k \in ChatIds : ChatSetOnError(k)
    \/ \E k \in ChatIds : ChatReturn(k)
    \/ \E s \in DOMAIN sockets : NetConnected(s)
    \/ \E s \in DOMAIN sockets : NetFailed(s)
    \/ \E s \in DOMAIN sockets : Dispatch(s)
    \/ \E s \in DOMAIN sockets : \E which \in {"onopen", "onerror"} : CallerSetsHook(s, which)

SpecChat == Init /\ [][NextChat]_vars

(***************************************************************************)
(* Properties                                                              *)
(***************************************************************************)
\* the call has issued its request
Sent(c) == c.nfetch > 0
\* the call has ended and had received a response
Answered(c) == c.pc = "settled" /\ c.response # NoResponse
NonSuccess(c) == ~c.response.ok
BodyIsJson(c) == c.response.body.t = "string" /\ ValidJson(c.response.body.v)
BodyIsNotJson(c) == c.response.body.t = "string" /\ ~ValidJson(c.response.body.v)

RegisterBody5 ==
    "{\"email\":\"a@b.com\",\"password\":\"pw\",\"full_name\":\"A B\","
    \o "\"phone_number\":\"\",\"role\":\"citizen\"}"

\* C1: every request register submits carries role "citizen" in its JSON body,
\* whatever role the input object carries.
C1_RoleAlwaysCitizen ==
    \A i \in CallIds :
        calls[i].op = "register" /\ Sent(calls[i]) =>
            /\ Lookup(calls[i].request.json, "role") = Str("citizen")
            /\ Len(SelectSeq(calls[i].request.json, LAMBDA f : f.key = "role")) = 1

\* a register call given role: "admin" has submitted the body of the spec's
\* scenario, with role "citizen"
C1_Witness ==
    \E i \in CallIds :
        /\ calls[i].op = "register" /\ Sent(calls[i])
        /\ calls[i].args[1].t = "object" /\ calls[i].args[1].role = Str("admin")
        /\ calls[i].request.body = Str(RegisterBody5)

\* the value provided under exactly one of two spellings (undefined: a field
\* that is absent), or undefined when none or both are provided
ProvidedOne(a, b) ==
    CASE a # Undef /\ b = Undef -> a
      [] a = Undef /\ b # Undef -> b
      [] OTHER -> Undef
ExactlyOne(a, b) == (a # Undef) # (b # Undef)
\* a truthy value JSON carries unchanged
TruthyJson(p) ==
    \/ p.t = "string" /\ p.v # ""
    \/ p.t = "number" /\ p.v \notin {"0", "NaN", "Infinity", "-Infinity"}
    \/ p = Bool("true")
Falsy(p) ==
    p \in {Str(""), Num("0"), Num("NaN"), Bool("false"), Null}

\* the law of C2 as amended, for one pair of spellings and the submitted value
NormalisedAmended(a, b, sent) ==
    /\ ExactlyOne(a, b) /\ TruthyJson(ProvidedOne(a, b)) => sent = ProvidedOne(a, b)
    /\ ExactlyOne(a, b) /\ Falsy(ProvidedOne(a, b)) => sent = Str("")
    /\ a = Undef /\ b = Undef => sent = Str("")

\* the law of C2 as the spec states it
NormalisedOriginal(a, b, sent) ==
    /\ ExactlyOne(a, b) => sent = ProvidedOne(a, b)
    /\ a = Undef /\ b = Undef => sent = Str("")

\* C2 (amended): with exactly one of fullName / full_name provided, the submitted
\* full_name equals the provided value when that value is truthy (a non-empty
\* string, a non-zero finite number, true) and is "" when it is falsy ("", 0, NaN,
\* false, null); with neither provided it is "". The same for phoneNumber /
\* phone_number and the submitted phone_number.
C2_NormalisedNames ==
    \A i \in CallIds :
        calls[i].op = "register" /\ Sent(calls[i]) =>
            LET u == calls[i].args[1]
                json == calls[i].request.json
            IN /\ NormalisedAmended(u.fullName, u.full_name, Lookup(json, "full_name"))
               /\ NormalisedAmended(u.phoneNumber, u.phone_number,
                                    Lookup(json, "phone_number"))

\* C2 as stated: the submitted value equals the provided value for every value
\* that can be provided.
C2_Original ==
    \A i \in CallIds :
        calls[i].op = "register" /\ Sent(calls[i]) =>
            LET u == calls[i].args[1]
                json == calls[i].request.json
            IN /\ NormalisedOriginal(u.fullName, u.full_name, Lookup(json, "full_name"))
               /\ NormalisedOriginal(u.phoneNumber, u.phone_number,
                                     Lookup(json, "phone_number"))

\* a register call given only the snake_case name and only a falsy camelCase
\* phone has submitted the name and an empty phone
C2_Witness ==
    \E i \in CallIds :
        /\ calls[i].op = "register" /\ Sent(calls[i])
        /\ calls[i].args[1].t = "object"
        /\ calls[i].args[1].fullName = Undef /\ calls[i].args[1].full_name = Str("A B")
        /\ calls[i].args[1].phoneNumber = Bool("false")
        /\ calls[i].args[1].phone_number = Undef
        /\ Lookup(calls[i].request.json, "full_name") = Str("A B")
        /\ Lookup(calls[i].request.json, "phone_number") = Str("")

\* the bodies that carry a detail property, and the string form of its value
HasDetail(text) ==
    text \in {DetailBody, EmptyDetailBody, NullDetailBody, ObjectDetailBody}
DetailText(text) ==
    CASE text = DetailBody -> "Bad credentials"
      [] text = EmptyDetailBody -> ""
      [] text = NullDetailBody -> "null"
      [] text = ObjectDetailBody -> "[object Object]"
      [] OTHER -> ""
\* the bodies whose detail is truthy
HasTruthyDetail(text) == text \in {DetailBody, ObjectDetailBody}

\* C3 (amended): in a status-checking operation, a non-success response whose
\* body parses as JSON makes the call fail, never return; the error is
\* "<Operation> failed: X" with X the string form of the body's detail when the
\* detail is truthy, and the status text when the detail is absent or falsy (null,
\* ""); when the body is the JSON value null, the call fails with the TypeError
\* of reading detail of null instead.
C3_FailureMessage ==
    \A i \in CallIds :
        LET c == calls[i]
            text == c.response.body.v
        IN HasStatusCheck(c.op) /\ Answered(c) /\ NonSuccess(c) /\ BodyIsJson(c) =>
            /\ c.result = "threw"
            /\ text = NullBody => c.err.name = "TypeError"
            /\ text # NullBody /\ HasTruthyDetail(text) =>
                   c.err = Err("Error", FailurePrefix(c.op) \o DetailText(text))
            /\ text # NullBody /\ ~HasTruthyDetail(text) =>
                   c.err = Err("Error", FailurePrefix(c.op) \o c.response.statusText)

\* C3 as stated: X is the body's detail whenever the body contains one, the status
\* text otherwise, for every body that parses.
C3_Original ==
    \A i \in CallIds :
        LET c == calls[i]
            text == c.response.body.v
        IN HasStatusCheck(c.op) /\ Answered(c) /\ NonSuccess(c) /\ BodyIsJson(c) =>
            /\ c.result = "threw"
            /\ c.err = Err("Error", FailurePrefix(c.op)
                                    \o (IF HasDetail(text) THEN DetailText(text)
                                        ELSE c.response.statusText))

\* login answered 401 with a detail has failed with the detail in its message
C3_Witness ==
    \E i \in CallIds :
        /\ calls[i].op = "login" /\ Answered(calls[i])
        /\ calls[i].response.status = 401
        /\ calls[i].response.body = Str(DetailBody)
        /\ calls[i].err = Err("Error", "Login failed: Bad credentials")

\* C4: getIncidents and createIncident return the parsed body of every response
\* whose body parses, whatever its status.
C4_NoStatusCheck ==
    \A i \in CallIds :
        LET c == calls[i]
        IN c.op \in {"getIncidents", "createIncident"} /\ Answered(c) /\ BodyIsJson(c) =>
            /\ c.result = "returned"
            /\ c.val.v = c.response.body.v
            /\ c.err = NoErr

\* createIncident answered 401 with an error body has returned that body
C4_Witness ==
    \E i \in CallIds :
        /\ calls[i].op = "createIncident" /\ Answered(calls[i])
        /\ calls[i].response.status = 401
        /\ calls[i].result = "returned"
        /\ calls[i].val.v = DetailBody
        /\ calls[i].val.detail = Str("Bad credentials")

\* the argument lists on which building the request throws: register without
\* an input object, a login string that cannot be URL-encoded, a payload or
\* message JSON cannot carry
ArgumentsThrow(c) ==
    \/ c.op = "register" /\ c.args[1] \in {Undef, Null}
    \/ c.op = "login" /\ LoneSurrogate \in {c.args[1], c.args[2]}
    \/ c.op \in {"createIncident", "sendEmergency", "sendReport"}
          /\ c.args[2].t \in {"circular", "bigint"}
    \/ c.op = "sendChatMessage" /\ {c.args[2].t, c.args[3].t} \cap {"circular", "bigint"} # {}

InFlight(c) == c.pc \in {"awaitFetch", "awaitJson", "awaitErrorJson"}

\* C5 (amended): every call of an HTTP operation issues at most one request and
\* never a second one (no retry); it issues exactly one on every path on which
\* its request can be built - success, non-success status, malformed body,
\* transport failure - and none when building the request throws (register without
\* an input object, a login string that cannot be URL-encoded, a payload that JSON
\* cannot serialise), where the call fails at once; a call that has ended has no
\* request outstanding.
C5_AtMostOneRequest ==
    \A i \in CallIds :
        LET c == calls[i]
        IN /\ c.nfetch <= 1
           /\ InFlight(c) => c.nfetch = 1
           /\ c.pc = "settled" /\ ~ArgumentsThrow(c) => c.nfetch = 1
           /\ c.pc = "settled" /\ ArgumentsThrow(c) =>
                  c.nfetch = 0 /\ c.result = "threw" /\ c.response = NoResponse
           /\ c.pc = "idle" => c.nfetch = 0

\* C5 as stated: exactly one request on every execution path.
C5_Original ==
    \A i \in CallIds : calls[i].pc = "settled" => calls[i].nfetch = 1

\* a call has ended by a transport failure with its one request issued
C5_Witness ==
    \E i \in CallIds :
        /\ calls[i].pc = "settled" /\ calls[i].nfetch = 1
        /\ calls[i].response = NoResponse
        /\ calls[i].err = Err("TypeError", "Network request failed")

\* the failures of a call that has ended: no response (the request could not be
\* built or the transport failed), a non-success status where it is checked, a body
\* that could not be read or parsed
Failed(c) ==
    /\ c.pc = "settled"
    /\ \/ c.response = NoResponse
       \/ HasStatusCheck(c.op) /\ NonSuccess(c)
       \/ ~BodyIsJson(c)

Logged(i, e) ==
    CopiesIn([kind |-> "http", id |-> i, level |-> "error",
              tag |-> LogTag(calls[i].op), err |-> e], log) = 1

\* C6: a failed call never returns a value; its error is logged under the
\* operation's tag, and the error the caller receives is the logged one, the log
\* entry being there when the caller receives it.
C6_LoggedThenPropagated ==
    \A i \in CallIds :
        LET c == calls[i]
        IN /\ Failed(c) => c.result = "threw"
           /\ c.result = "threw" => c.err # NoErr /\ Logged(i, c.err)
           /\ c.seen = "threw" => c.seenErr = c.err /\ Logged(i, c.seenErr)
           /\ c.seen = "returned" => ~Failed(c)
           /\ c.result = "returned" => \A e \in BagToSet(log) : e.id # i

\* the caller of sendReport has received the parse error of a 500 response
\* with an HTML body, logged under "Send report error:"
C6_Witness ==
    \E i \in CallIds :
        /\ calls[i].op = "sendReport" /\ calls[i].seen = "threw"
        /\ calls[i].response.status = 500
        /\ calls[i].seenErr.name = "SyntaxError"
        /\ log = SetToBag({ [kind |-> "http", id |-> i, level |-> "error",
                              tag |-> "Send report error:", err |-> calls[i].seenErr] })

\* C8: in a status-checking operation, a non-success response whose body is
\* not valid JSON makes the call fail with the parse error, not with the
\* "<Operation> failed: ..." error.
C8_ParseErrorPropagates ==
    \A i \in CallIds :
        LET c == calls[i]
        IN HasStatusCheck(c.op) /\ Answered(c) /\ NonSuccess(c) /\ BodyIsNotJson(c) =>
            /\ c.result = "threw"
            /\ c.err.name = "SyntaxError"
            /\ c.err \in { Err("SyntaxError", "Unexpected end of JSON input"),
                           Err("SyntaxError", "Unexpected token < in JSON at position 0") }

\* login answered 500 with an HTML body has failed with the SyntaxError
C8_Witness ==
    \E i \in CallIds :
        /\ calls[i].op = "login" /\ Answered(calls[i])
        /\ calls[i].response.status = 500
        /\ calls[i].response.body = Str(HtmlBody)
        /\ calls[i].result = "threw"
        /\ calls[i].err.name = "SyntaxError"

Authorized(op) == op \in Ops \ {"login", "register"}

\* C9: under every interleaving, the request of a call carries the call's own
\* token and is the same as that of any call with the same arguments, and the
\* outcome of a call is the same as that of any call of the same operation with
\* the same request and response.
C9_Independent ==
    \A i \in CallIds :
        LET c == calls[i]
        IN /\ Sent(c) /\ Authorized(c.op) => c.request.auth = Str("Bearer " \o c.args[1].v)
           /\ Sent(c) /\ ~Authorized(c.op) => c.request.auth = Undef
           /\ \A j \in CallIds :
                LET d == calls[j]
                IN /\ c.op = d.op /\ c.args = d.args /\ c.pc # "idle" /\ d.pc # "idle" =>
                        Sent(c) = Sent(d) /\ (Sent(c) => c.request = d.request)
                   /\ c.op = d.op /\ c.request = d.request /\ c.response = d.response
                        /\ Answered(c) /\ Answered(d) =>
                        c.result = d.result /\ c.val = d.val /\ c.err = d.err
           /\ \A e \in BagToSet(log) : e.id = i => e.err = c.err /\ CopiesIn(e, log) = 1

\* two getIncidents calls with different tokens were in flight together, each
\* with its own token, and the later one has ended first
C9_Witness ==
    /\ calls[1].op = "getIncidents" /\ calls[2].op = "getIncidents"
    /\ calls[1].args[1] = Str("t1") /\ calls[2].args[1] = Str("t2")
    /\ calls[1].pc = "awaitFetch" /\ calls[2].pc = "settled"
    /\ calls[1].request.auth = Str("Bearer t1")
    /\ calls[2].request.auth = Str("Bearer t2")
    /\ calls[2].result = "returned"

SocketsOf(k) == { s \in DOMAIN sockets : sockets[s].owner = k }
FiredBy(s, ev, hook) ==
    Len(SelectSeq(sockets[s].fired, LAMBDA f : f.ev = ev /\ f.hook = hook))
\* the number of console entries of a level written for socket s
RECURSIVE Copies(_)
Copies(es) ==
    IF es = {} THEN 0
    ELSE LET e == CHOOSE x \in es : TRUE IN CopiesIn(e, log) + Copies(es \ {e})
WsLogged(s, level) ==
    Copies({ e \in BagToSet(log) : e.kind = "ws" /\ e.id = s /\ e.level = level })

\* C7: the handle is returned while the socket is still connecting and before
\* any of its events is delivered; an error of the socket delivered to the client's
\* hook adds one log entry and nothing else: the invocation stays returned and no
\* further socket is opened for it.
C7_ErrorsOnlyLogged ==
    /\ \A k \in ChatIds :
        /\ chat[k].pc = "returned" =>
               chat[k].stateAtReturn = "CONNECTING" /\ chat[k].firedAtReturn = 0
        /\ chat[k].result # "threw"
        /\ Cardinality(SocketsOf(k)) <= 1
        /\ chat[k].pc # "idle" => Cardinality(SocketsOf(k)) = 1
    /\ \A s \in DOMAIN sockets :
        /\ WsLogged(s, "error") = FiredBy(s, "error", "client")
        /\ sockets[s].fired # <<>> => chat[sockets[s].owner].pc = "returned"
    /\ \A e \in BagToSet(log) : e.kind = "ws"

\* a socket has failed after its handle was returned, and the client's hook
\* has logged the error
C7_Witness ==
    \E s \in DOMAIN sockets :
        /\ chat[sockets[s].owner].pc = "returned"
        /\ sockets[s].readyState = "CLOSED"
        /\ FiredBy(s, "error", "client") = 1
        /\ WsLogged(s, "error") = 1

\* C10: both hooks are set when the handle is returned, and every open or
\* error event of a socket is delivered to a hook that is set: to the client's
\* diagnostic hook, which logs it, unless the caller has replaced that hook.
C10_NoEventMissed ==
    /\ \A k \in ChatIds :
        chat[k].pc = "returned" => chat[k].hooksAtReturn = <<"client", "client">>
    /\ \A s \in DOMAIN sockets :
        /\ \A n \in DOMAIN sockets[s].fired :
               sockets[s].fired[n].hook \in {"client", "caller"}
        /\ WsLogged(s, "log") = FiredBy(s, "open", "client")
        /\ WsLogged(s, "error") = FiredBy(s, "error", "client")
        /\ sockets[s].onerror = "caller" \/ FiredBy(s, "error", "caller") = 0
        /\ sockets[s].onopen = "caller" \/ FiredBy(s, "open", "caller") = 0

\* the connection failed while connectToChat was still executing, and the
\* error was delivered to the client's hook after the return
C10_Witness ==
    \E s \in DOMAIN sockets :
        /\ sockets[s].early
        /\ sockets[s].fired = << [ev |-> "error", hook |-> "client"] >>
        /\ WsLogged(s, "error") = 1

=============================================================================
